---- MODULE Spec2Model ----
(***************************************************************************)
(* Maintenance scripts of the Why3 proof repository:                       *)
(*   cleanProofTree.py              prunes the proof session tree          *)
(*   src/checkAllFilesHaveProof.py  coverage audit (session vs directory)  *)
(*   src/checkStatementProofConv.py statement/proof separation audit       *)
(* Each script is modelled by its own specification over its own           *)
(* variables; the variables of the other scripts stay idle.                *)
(***************************************************************************)
EXTENDS Integers, Sequences, FiniteSets, TLC

VARIABLES
  tree,      \* cleanProofTree.py: the ElementTree in memory
  input,     \* the tree as parsed, before any run
  before,    \* the tree as it was before the latest run
  runs,      \* number of completed runs of clean_proof_tree
  session,   \* checkAllFilesHaveProof.py: the session's elements, as root.iter() yields them
  directory, \* the names listdir('src/') returns
  covOut,    \* the lines printed
  covPc,     \* "start", "returned" (the function returned) or "exited" (exit was called)
  covExit,   \* the exit status of the process
  content,   \* checkStatementProofConv.py, one file: the text of the file
  errsA,     \* what check_lemma_axiom_in_lemmas returned
  errsB,     \* what check_proofs_for_lemmas returned
  ran,       \* the checks that have been applied to the file
  dir,       \* checkStatementProofConv.py, the run: the files of '.', name to text
  order,     \* the names in the order os.listdir('.') returns them
  idx,       \* the position in order of the loop of check_whyml_files
  errors,    \* the list errors of check_whyml_files
  sepOut,    \* the lines printed
  sepPc,     \* "loop", "returned" (the function returned) or "exited" (exit was called)
  sepExit    \* the exit status of the process

treeVars == <<tree, input, before, runs>>
covVars == <<session, directory, covOut, covPc, covExit>>
fileVars == <<content, errsA, errsB, ran>>
dirVars == <<dir, order, idx, errors, sepOut, sepPc, sepExit>>
vars == <<tree, input, before, runs, session, directory, covOut, covPc, covExit,
          content, errsA, errsB, ran, dir, order, idx, errors, sepOut, sepPc, sepExit>>

(***************************************************************************)
(* Bounds                                                                  *)
(***************************************************************************)
MaxNodes == 5
MaxRuns == 2
MaxElems == 3
MaxPieces == 3

(***************************************************************************)
(* The variables of a script that is not the one running                   *)
(***************************************************************************)
IdleTree ==
  /\ tree = <<>>
  /\ input = <<>>
  /\ before = <<>>
  /\ runs = 0

IdleCov ==
  /\ session = <<>>
  /\ directory = {}
  /\ covOut = <<>>
  /\ covPc = "idle"
  /\ covExit = 0

IdleFile ==
  /\ content = <<>>
  /\ errsA = <<>>
  /\ errsB = <<>>
  /\ ran = {}

IdleDir ==
  /\ dir = <<>>
  /\ order = <<>>
  /\ idx = 0
  /\ errors = <<>>
  /\ sepOut = <<>>
  /\ sepPc = "idle"
  /\ sepExit = 0

(***************************************************************************)
(* Sequence helpers                                                        *)
(***************************************************************************)
Range(s) == {s[i] : i \in 1..Len(s)}

Min(S) == CHOOSE x \in S : \A y \in S : x <= y

RECURSIVE Ascending(_)
Ascending(S) == IF S = {} THEN <<>>
                ELSE <<Min(S)>> \o Ascending(S \ {Min(S)})

(***************************************************************************)
(* Text: a Python str is the sequence of its characters                    *)
(***************************************************************************)
\* s[i..] begins with pat
StartsAt(s, i, pat) ==
  /\ i >= 1
  /\ i + Len(pat) - 1 <= Len(s)
  /\ SubSeq(s, i, i + Len(pat) - 1) = pat

\* str.endswith
endswith(s, suffix) ==
  /\ Len(s) >= Len(suffix)
  /\ SubSeq(s, Len(s) - Len(suffix) + 1, Len(s)) = suffix

\* the "in" operator on strings
Contains(s, pat) == \E i \in 1..(Len(s) + 1) : StartsAt(s, i, pat)

RECURSIVE Concat(_)
Concat(ss) == IF ss = <<>> THEN <<>> ELSE Head(ss) \o Concat(Tail(ss))

\* the sequences over S of length at most n
SeqsUpTo(S, n) == UNION {[1..k -> S] : k \in 0..n}

\* the orders in which the elements of the set S can be listed
Orders(S) ==
  {o \in [1..Cardinality(S) -> S] : \A x \in S : \E i \in DOMAIN o : o[i] = x}

\* A character is a one-character string. The classes below list every
\* character up to U+00FF that belongs to them; the control characters other
\* than \t, \n, \f and \r stand in the strings as themselves.

\* the characters \w matches in a str pattern (no re.ASCII): the letters,
\* the digits and other numeric characters, and the underscore
WordChars ==
  {"0", "1", "2", "3", "4", "5", "6", "7", "8", "9", "A", "B", "C",
   "D", "E", "F", "G", "H", "I", "J", "K", "L", "M", "N", "O", "P",
   "Q", "R", "S", "T", "U", "V", "W", "X", "Y", "Z", "_", "a", "b",
   "c", "d", "e", "f", "g", "h", "i", "j", "k", "l", "m", "n", "o",
   "p", "q", "r", "s", "t", "u", "v", "w", "x", "y", "z", "ª", "²",
   "³", "µ", "¹", "º", "¼", "½", "¾", "À", "Á", "Â", "Ã", "Ä", "Å",
   "Æ", "Ç", "È", "É", "Ê", "Ë", "Ì", "Í", "Î", "Ï", "Ð", "Ñ", "Ò",
   "Ó", "Ô", "Õ", "Ö", "Ø", "Ù", "Ú", "Û", "Ü", "Ý", "Þ", "ß", "à",
   "á", "â", "ã", "ä", "å", "æ", "ç", "è", "é", "ê", "ë", "ì", "í",
   "î", "ï", "ð", "ñ", "ò", "ó", "ô", "õ", "ö", "ø", "ù", "ú", "û",
   "ü", "ý", "þ", "ÿ"}

\* the characters \s matches in a str pattern: \t \n U+000B \f \r,
\* U+001C to U+001F, the space, U+0085 and U+00A0
SpaceChars ==
  {"\t", "\n", "", "\f", "\r", "", "", "", "", " ", "", " "}

\* the characters str.splitlines ends a line at: \n U+000B \f \r,
\* U+001C to U+001E and U+0085
LineBreaks ==
  {"\n", "", "\f", "\r", "", "", "", ""}

\* the length of the longest run of \w characters of s from position i
RECURSIVE WordRun(_, _)
WordRun(s, i) ==
  IF i >= 1 /\ i <= Len(s) /\ s[i] \in WordChars THEN 1 + WordRun(s, i + 1) ELSE 0

\* the length of the longest run of \s characters of s from position i
RECURSIVE SpaceRun(_, _)
SpaceRun(s, i) ==
  IF i >= 1 /\ i <= Len(s) /\ s[i] \in SpaceChars THEN 1 + SpaceRun(s, i + 1) ELSE 0

\* the least position from i on at which pat occurs in s, 0 when there is none
RECURSIVE Find(_, _, _)
Find(s, pat, i) ==
  IF i + Len(pat) - 1 > Len(s) THEN 0
  ELSE IF StartsAt(s, i, pat) THEN i
  ELSE Find(s, pat, i + 1)

\* the least position from i on of a character of LineBreaks, 0 when there
\* is none
RECURSIVE FindLineBreak(_, _)
FindLineBreak(s, i) ==
  IF i > Len(s) THEN 0
  ELSE IF s[i] \in LineBreaks THEN i
  ELSE FindLineBreak(s, i + 1)

\* str.splitlines: the lines of s without their line ends; \r\n is one line
\* end, and a line end at the very end opens no further line
RECURSIVE splitlines(_)
splitlines(s) ==
  IF s = <<>> THEN <<>>
  ELSE LET k == FindLineBreak(s, 1)
           n == IF k # 0 /\ s[k] = "\r" /\ k < Len(s) /\ s[k + 1] = "\n"
                THEN k + 1 ELSE k
       IN  IF k = 0 THEN <<s>>
           ELSE <<SubSeq(s, 1, k - 1)>> \o splitlines(SubSeq(s, n + 1, Len(s)))

\* str.replace: every occurrence of old, left to right, becomes new
RECURSIVE replace(_, _, _)
replace(s, old, new) ==
  IF s = <<>> THEN <<>>
  ELSE IF StartsAt(s, 1, old)
       THEN new \o replace(SubSeq(s, Len(old) + 1, Len(s)), old, new)
  ELSE <<Head(s)>> \o replace(Tail(s), old, new)

s_module == <<"m", "o", "d", "u", "l", "e">>
s_Lemmas == <<"L", "e", "m", "m", "a", "s">>
s_Proofs == <<"P", "r", "o", "o", "f", "s">>
s_Spec == <<"S", "p", "e", "c">>
s_val_lemma == <<"v", "a", "l", " ", "l", "e", "m", "m", "a">>
s_axiom == <<"a", "x", "i", "o", "m">>
s_open == <<"(", "*">>
s_close == <<"*", ")">>
s_colon == <<":">>
s_mlw == <<".", "m", "l", "w">>
name_A == <<"A", ".", "m", "l", "w">>
name_B == <<"B", ".", "m", "l", "w">>
name_exempt == <<"t", "w", "o", "H", "o", "n", "e", "s", "t", "P", "a", "r", "t", "i", "e", "s", ".", "m", "l", "w">>
name_other == <<"A", ".", "m", "l">>

(***************************************************************************)
(* ProofTree model: xml.etree.ElementTree elements                         *)
(***************************************************************************)
Nodes == 1..MaxNodes
Root == 1
None == 0

\* tags of the elements below the root of a why3session document
Tags == {"goal", "transf", "proof", "path"}
RootTag == "why3session"

\* n and its ancestors under the parent function p
RECURSIVE AncestorsOrSelf(_, _)
AncestorsOrSelf(p, n) ==
  IF n = Root THEN {Root} ELSE {n} \cup AncestorsOrSelf(p, p[n])

\* parent functions of the ordered trees over Nodes, each tree once: node ids
\* are the elements' positions in document order
ParentMaps ==
  {p \in [2..MaxNodes -> Nodes] :
     /\ \A n \in 2..MaxNodes : p[n] < n
     /\ \A n \in 3..MaxNodes : p[n] \in AncestorsOrSelf(p, n - 1)}

MkTree(p, tg) ==
  [tag    |-> [n \in Nodes |-> IF n = Root THEN RootTag ELSE tg[n]],
   attrib |-> [n \in Nodes |-> [name |-> n]],
   kids   |-> [n \in Nodes |-> Ascending({m \in 2..MaxNodes : p[m] = n})]]

\* the elements below the forest ks, in document order
RECURSIVE Descend(_, _)
Descend(t, ks) ==
  IF ks = <<>> THEN <<>>
  ELSE <<Head(ks)>> \o Descend(t, t.kids[Head(ks)]) \o Descend(t, Tail(ks))

\* root.findall(".//goal"): every goal element below the root, document order
findall_goal(t) ==
  SelectSeq(Descend(t, t.kids[Root]), LAMBDA n : t.tag[n] = "goal")

(***************************************************************************)
(* Tree Pruner: cleanProofTree.py                                          *)
(***************************************************************************)
ProofOrTransf == {"proof", "transf"}

\* the scan without the break: the last transf child wins
RECURSIVE scan_children_no_break(_, _, _, _, _)
scan_children_no_break(t, ks, i, transf_child, proof_child) ==
  IF i > Len(ks) THEN [transf_child |-> transf_child, proof_child |-> proof_child]
  ELSE IF t.tag[ks[i]] = "transf"
       THEN scan_children_no_break(t, ks, i + 1, ks[i], proof_child)
  ELSE IF t.tag[ks[i]] = "proof" /\ proof_child # None
       THEN scan_children_no_break(t, ks, i + 1, transf_child, ks[i])
  ELSE scan_children_no_break(t, ks, i + 1, transf_child, proof_child)

\* lines 12-17: "for child in goal", from child i on, with the two locals
RECURSIVE scan_children(_, _, _, _, _)
scan_children(t, ks, i, transf_child, proof_child) ==
  IF i > Len(ks) THEN [transf_child |-> transf_child, proof_child |-> proof_child]
  ELSE IF t.tag[ks[i]] = "transf"
       THEN [transf_child |-> ks[i], proof_child |-> proof_child]
  ELSE IF t.tag[ks[i]] = "proof" /\ proof_child # None
       THEN scan_children(t, ks, i + 1, transf_child, ks[i])
  ELSE scan_children(t, ks, i + 1, transf_child, proof_child)

\* line 19
child_to_keep(sc) ==
  IF sc.transf_child # None THEN sc.transf_child ELSE sc.proof_child

RemoveAt(s, i) == SubSeq(s, 1, i - 1) \o SubSeq(s, i + 1, Len(s))

\* the removal loop run over the live child list: each removal shifts the
\* rest down and the loop steps over the child after the removed one
RECURSIVE remove_live(_, _, _, _)
remove_live(t, ks, i, keep) ==
  IF i > Len(ks) THEN ks
  ELSE IF ks[i] # keep /\ t.tag[ks[i]] \in ProofOrTransf
       THEN remove_live(t, RemoveAt(ks, i), i + 1, keep)
  ELSE remove_live(t, ks, i + 1, keep)

remove_others_live(t, ks, keep) == remove_live(t, ks, 1, keep)

\* the removal loop without the test of the tag
remove_others_any_tag(t, ks, keep) ==
  SelectSeq(ks, LAMBDA c : ~(c # keep))

\* lines 23-25: over a copy of the child list, remove every child that is
\* not the kept one and is tagged proof or transf
remove_others(t, ks, keep) ==
  SelectSeq(ks, LAMBDA c : ~(c # keep /\ t.tag[c] \in ProofOrTransf))

\* lines 9-25: the body of the loop for one goal
clean_goal(t, goal) ==
  LET sc   == scan_children(t, t.kids[goal], 1, None, None)
      keep == child_to_keep(sc)
  IN  IF keep # None
      THEN [t EXCEPT !.kids[goal] = remove_others(t, t.kids[goal], keep)]
      ELSE t

RECURSIVE clean_goals(_, _)
clean_goals(t, goals) ==
  IF goals = <<>> THEN t
  ELSE clean_goals(clean_goal(t, Head(goals)), Tail(goals))

\* lines 4-27
clean_proof_tree(t) == clean_goals(t, findall_goal(t))

InitTree ==
  /\ IdleCov
  /\ IdleFile
  /\ IdleDir
  /\ \E p \in ParentMaps, tg \in [2..MaxNodes -> Tags] : tree = MkTree(p, tg)
  /\ input = tree
  /\ before = tree
  /\ runs = 0

\* one run of the script: the session is cleaned in place
Clean ==
  /\ runs < MaxRuns
  /\ before' = tree
  /\ tree' = clean_proof_tree(tree)
  /\ runs' = runs + 1
  /\ UNCHANGED <<input, covVars, fileVars, dirVars>>

NextTree == Clean

SpecTree == InitTree /\ [][NextTree]_vars

(***************************************************************************)
(* Claims about the Tree Pruner (specification SpecTree)                   *)
(***************************************************************************)
IsGoal(t, n) == t.tag[n] = "goal"

\* the children of n that are tagged transf or proof, in order
Attempts(t, n) == SelectSeq(t.kids[n], LAMBDA c : t.tag[c] \in ProofOrTransf)

HasTransf(t, n) == \E i \in 1..Len(t.kids[n]) : t.tag[t.kids[n][i]] = "transf"

HasProof(t, n) == \E i \in 1..Len(t.kids[n]) : t.tag[t.kids[n][i]] = "proof"

\* the first child of n tagged transf, in document order
FirstTransf(t, n) ==
  t.kids[n][Min({i \in 1..Len(t.kids[n]) : t.tag[t.kids[n][i]] = "transf"})]

\* the elements of the document: the root and everything below it
InDocument(t) == {Root} \cup Range(Descend(t, t.kids[Root]))

\* the document as serialised: the elements in the tree, with their tags,
\* attributes and children in order
View(t) ==
  [n \in InDocument(t) |->
     [tag |-> t.tag[n], attrib |-> t.attrib[n], kids |-> t.kids[n]]]

\* C1: a goal of the input tree with a transf child keeps, of its transf and
\* proof children, exactly its first transf child
C1_KeepsFirstTransf ==
  runs >= 1 =>
    \A g \in Nodes :
      (IsGoal(input, g) /\ HasTransf(input, g)) =>
        Attempts(tree, g) = <<FirstTransf(input, g)>>

\* a goal whose first transf child follows a proof child and precedes
\* another transf child has been cleaned
C1_Witness ==
  /\ runs >= 1
  /\ \E g \in Nodes :
       /\ IsGoal(input, g)
       /\ Len(input.kids[g]) >= 3
       /\ input.tag[input.kids[g][1]] = "proof"
       /\ input.tag[input.kids[g][2]] = "transf"
       /\ input.tag[input.kids[g][3]] = "transf"

\* C2: a goal of the input tree with proof children and no
\* transf child has no proof child after the run
C2_AllProofsRemoved ==
  runs >= 1 =>
    \A g \in Nodes :
      (IsGoal(input, g) /\ ~HasTransf(input, g) /\ HasProof(input, g)) =>
        ~HasProof(tree, g)

\* C3: after a run every goal of the resulting tree has at most one child
\* tagged transf or proof
C3_AtMostOneAttempt ==
  runs >= 1 =>
    \A g \in InDocument(tree) :
      IsGoal(tree, g) => Len(Attempts(tree, g)) <= 1

\* C4: a second run leaves the document as the first run left it
C4_Idempotent ==
  runs >= 2 => View(tree) = View(before)

\* the second run was given a document the first run had changed
C4_Witness ==
  /\ runs = 2
  /\ View(before) # View(input)

\* C9: a run only removes transf and proof children of goals: tags and
\* attributes stay, no child is added, the children kept stay in order,
\* the children of other elements and the other children of goals all stay
C9_OnlyAttemptsRemoved ==
  runs >= 1 =>
    \A n \in Nodes :
      /\ tree.tag[n] = input.tag[n]
      /\ tree.attrib[n] = input.attrib[n]
      /\ Range(tree.kids[n]) \subseteq Range(input.kids[n])
      /\ tree.kids[n] =
           SelectSeq(input.kids[n], LAMBDA c : c \in Range(tree.kids[n]))
      /\ ~IsGoal(input, n) => tree.kids[n] = input.kids[n]
      /\ \A i \in 1..Len(input.kids[n]) :
           input.tag[input.kids[n][i]] \notin ProofOrTransf
             => input.kids[n][i] \in Range(tree.kids[n])

\* a goal with a child of another tag has lost a transf or proof child
C9_Witness ==
  /\ runs >= 1
  /\ \E g \in Nodes :
       /\ IsGoal(input, g)
       /\ tree.kids[g] # input.kids[g]
       /\ \E i \in 1..Len(input.kids[g]) :
            input.tag[input.kids[g][i]] \notin ProofOrTransf

(***************************************************************************)
(* Coverage Auditor: src/checkAllFilesHaveProof.py                         *)
(***************************************************************************)
FileNames == {name_A, name_B, name_exempt, name_other}

\* the elements a session holds: path elements with their name attribute,
\* and an element of another tag that carries a name
Elements ==
  {[tag |-> "path", name |-> n] : n \in FileNames}
    \cup {[tag |-> "goal", name |-> name_A]}

\* lines 9-12: the loop over root.iter(), from element i on
RECURSIVE session_loop(_, _, _)
session_loop(elems, i, mlw_filenames) ==
  IF i > Len(elems) THEN mlw_filenames
  ELSE IF elems[i].tag = "path" /\ endswith(elems[i].name, s_mlw)
       THEN session_loop(elems, i + 1, mlw_filenames \cup {elems[i].name})
  ELSE session_loop(elems, i + 1, mlw_filenames)

\* lines 5-14
extract_mlw_filenames_from_session(elems) == session_loop(elems, 1, {})

\* lines 16-23
extract_mlw_filenames_from_directory(listing) ==
  {file_name \in listing : endswith(file_name, s_mlw)}

\* the directory side without the exemption
relevant_directory_no_exemption(names) == names

\* line 29
relevant_directory(names) == names \ {name_exempt}

Banner(text) == [line |-> text, file |-> <<>>]
FileLine(f) == [line |-> "file", file |-> f]

\* "for file in <set>: print(file)": the set is printed in the order o
PrintFiles(o) == [i \in 1..Len(o) |-> FileLine(o[i])]

InitCov ==
  /\ IdleTree
  /\ IdleFile
  /\ IdleDir
  /\ session \in SeqsUpTo(Elements, MaxElems)
  /\ directory \in SUBSET FileNames
  /\ covOut = <<>>
  /\ covPc = "start"
  /\ covExit = 0

\* lines 25-46
check_whyml_files_proven ==
  /\ covPc = "start"
  /\ LET session_filenames == extract_mlw_filenames_from_session(session)
         directory_filenames == extract_mlw_filenames_from_directory(directory)
         relevant_directory_filenames == relevant_directory(directory_filenames)
         extra_in_session == session_filenames \ relevant_directory_filenames
         extra_in_directory == relevant_directory_filenames \ session_filenames
     IN  IF session_filenames = relevant_directory_filenames
         THEN /\ covOut' = <<Banner("Proof availability check PASSED:"),
                             Banner("Apart from twoHonestParties.mlw, all *.mlw files in the directory have a proof in the proof tree and vice versa.")>>
              /\ covPc' = "returned"
              /\ covExit' = 0
         ELSE /\ \E o1 \in Orders(extra_in_session), o2 \in Orders(extra_in_directory) :
                   covOut' =
                     <<Banner("Proof availability check FAILED:")>>
                     \o (IF extra_in_session # {}
                         THEN <<Banner("*.mlw files in proof tree but not in directory:")>>
                              \o PrintFiles(o1)
                         ELSE <<>>)
                     \o (IF extra_in_directory # {}
                         THEN <<Banner("*.mlw files in directory but not in proof tree:")>>
                              \o PrintFiles(o2)
                         ELSE <<>>)
              /\ covPc' = "exited"
              /\ covExit' = 1
  /\ UNCHANGED <<session, directory, treeVars, fileVars, dirVars>>

NextCov == check_whyml_files_proven

SpecCov == InitCov /\ [][NextCov]_vars

(***************************************************************************)
(* Claims about the Coverage Auditor (specification SpecCov)               *)
(***************************************************************************)
\* S: the .mlw names of the session's path elements
SessionNames ==
  {e.name : e \in {x \in Range(session) : x.tag = "path" /\ endswith(x.name, s_mlw)}}

\* D without the exempt name: the other .mlw names of the directory
DirectoryNames ==
  {f \in directory : endswith(f, s_mlw) /\ f # name_exempt}

\* the positions of the output that print the banner text
BannerAt(text) == {i \in 1..Len(covOut) : covOut[i] = Banner(text)}

\* the file names printed under the banner text: those between it and the
\* next banner
ListedUnder(text) ==
  {covOut[i].file : i \in
     {j \in 1..Len(covOut) :
        /\ covOut[j].line = "file"
        /\ \E b \in BannerAt(text) :
             /\ b < j
             /\ \A k \in (b + 1)..j : covOut[k].line = "file"}}

InSessionOnly == "*.mlw files in proof tree but not in directory:"
InDirectoryOnly == "*.mlw files in directory but not in proof tree:"

\* C5: the check passes, leaving the process running to exit status 0,
\* exactly when S is D without the exempt name; otherwise it exits with
\* status 1 having listed S \ D' and D' \ S, each file once, one of the two
\* non-empty, and no header for an empty list
C5_CoverageVerdict ==
  covPc \in {"returned", "exited"} =>
    IF SessionNames = DirectoryNames
    THEN /\ covPc = "returned"
         /\ covExit = 0
         /\ BannerAt("Proof availability check PASSED:") # {}
    ELSE /\ covPc = "exited"
         /\ covExit = 1
         /\ covOut[1] = Banner("Proof availability check FAILED:")
         /\ ListedUnder(InSessionOnly) = SessionNames \ DirectoryNames
         /\ ListedUnder(InDirectoryOnly) = DirectoryNames \ SessionNames
         /\ ListedUnder(InSessionOnly) \cup ListedUnder(InDirectoryOnly) # {}
         /\ (BannerAt(InSessionOnly) = {}) <=> (SessionNames \ DirectoryNames = {})
         /\ (BannerAt(InDirectoryOnly) = {}) <=> (DirectoryNames \ SessionNames = {})
         /\ Cardinality({i \in 1..Len(covOut) : covOut[i].line = "file"})
              = Cardinality(SessionNames \ DirectoryNames)
                  + Cardinality(DirectoryNames \ SessionNames)

\* the check has failed on a session that names the exempt file, with the
\* exempt file in the directory and nothing else out of place
C5_Witness ==
  /\ covPc = "exited"
  /\ SessionNames = {name_A, name_exempt}
  /\ directory = {name_A, name_exempt, name_other}
  /\ ListedUnder(InSessionOnly) = {name_exempt}

(***************************************************************************)
(* Statement/Proof Separation Auditor: src/checkStatementProofConv.py      *)
(***************************************************************************)
\* lines 5-10: re.sub of the pattern \(\*.*?\*\) (DOTALL) by '': the leftmost
\* "(*" that a "*)" follows is cut up to the first "*)" after it, and the
\* search goes on behind that
RECURSIVE remove_comments(_)
remove_comments(text) ==
  LET i == Find(text, s_open, 1)
      j == IF i = 0 THEN 0 ELSE Find(text, s_close, i + Len(s_open))
  IN  IF i = 0 \/ j = 0 THEN text
      ELSE SubSeq(text, 1, i - 1)
             \o remove_comments(SubSeq(text, j + Len(s_close), Len(text)))

\* current_module = None; module names are never empty
NoModule == <<>>

NoMatch == [end |-> 0, groups |-> <<>>]

\* line 23, module\s+(\w+)\s* tried at position i of s: group 1, or NoModule
module_pattern(s, i) ==
  LET ws == SpaceRun(s, i + Len(s_module))
      at == i + Len(s_module) + ws
      w  == WordRun(s, at)
  IN  IF StartsAt(s, i, s_module) /\ ws >= 1 /\ w >= 1
      THEN SubSeq(s, at, at + w - 1)
      ELSE NoModule

ErrorA(file_path, module) ==
  [file |-> file_path,
   text |-> "'val lemma' or 'axiom' found in non-Lemmas module",
   module |-> module]

ErrorB(file_path, module) ==
  [file |-> file_path,
   text |-> "No corresponding Proofs module for Lemmas module",
   module |-> module]

\* the test of line 40 without the Spec modules
module_flagged_lemmas_only(current_module) ==
  /\ current_module # NoModule
  /\ ~endswith(current_module, s_Lemmas)

\* line 40
module_flagged(current_module) ==
  /\ current_module # NoModule
  /\ ~endswith(current_module, s_Lemmas)
  /\ ~endswith(current_module, s_Spec)

\* lines 34-41: the loop over the lines, from line i on
RECURSIVE scan_lines(_, _, _, _, _)
scan_lines(file_path, lines, i, current_module, errs) ==
  IF i > Len(lines) THEN errs
  ELSE LET line == lines[i]
           module_match == module_pattern(line, 1)
           cm == IF module_match # NoModule THEN module_match ELSE current_module
       IN  IF (Contains(line, s_val_lemma) \/ Contains(line, s_axiom))
                /\ module_flagged(cm)
           THEN scan_lines(file_path, lines, i + 1, cm,
                           Append(errs, ErrorA(file_path, cm)))
           ELSE scan_lines(file_path, lines, i + 1, cm, errs)

\* lines 12-43, text being what open(file_path).read() returns
check_lemma_axiom_in_lemmas(file_path, text) ==
  scan_lines(file_path, splitlines(remove_comments(text)), 1, NoModule, <<>>)

\* line 53, module\s+(\w+Lemmas)\b tried at position i of s: the word after
\* "module" has to end in Lemmas, after at least one other character
lemmas_pattern(s, i) ==
  LET ws   == SpaceRun(s, i + Len(s_module))
      at   == i + Len(s_module) + ws
      w    == WordRun(s, at)
      word == SubSeq(s, at, at + w - 1)
  IN  IF StartsAt(s, i, s_module) /\ ws >= 1
           /\ w > Len(s_Lemmas) /\ endswith(word, s_Lemmas)
      THEN [end |-> at + w - 1, groups |-> <<word>>]
      ELSE NoMatch

\* line 57, module\s+(\w+Proofs)\s*:\s*(\w+Lemmas) tried at position i of s:
\* the first word has to end in Proofs, the second group is the longest
\* start of the second word that ends in Lemmas
proofs_pattern(s, i) ==
  LET ws1   == SpaceRun(s, i + Len(s_module))
      at1   == i + Len(s_module) + ws1
      w1    == WordRun(s, at1)
      word1 == SubSeq(s, at1, at1 + w1 - 1)
      colon == at1 + w1 + SpaceRun(s, at1 + w1)
      at2   == colon + 1 + SpaceRun(s, colon + 1)
      w2    == WordRun(s, at2)
      ends  == {k \in (Len(s_Lemmas) + 1)..w2 :
                  endswith(SubSeq(s, at2, at2 + k - 1), s_Lemmas)}
  IN  IF StartsAt(s, i, s_module) /\ ws1 >= 1
           /\ w1 > Len(s_Proofs) /\ endswith(word1, s_Proofs)
           /\ StartsAt(s, colon, s_colon)
           /\ ends # {}
      THEN LET k == CHOOSE x \in ends : \A y \in ends : y <= x
           IN  [end |-> at2 + k - 1,
                groups |-> <<word1, SubSeq(s, at2, at2 + k - 1)>>]
      ELSE NoMatch

\* line 54: findall, the matches from position i on, left to right, each
\* search starting where the match before ended
RECURSIVE findall_lemmas(_, _)
findall_lemmas(s, i) ==
  IF i > Len(s) THEN <<>>
  ELSE LET m == lemmas_pattern(s, i)
       IN  IF m = NoMatch THEN findall_lemmas(s, i + 1)
           ELSE <<m.groups[1]>> \o findall_lemmas(s, m.end + 1)

\* line 58
RECURSIVE findall_proofs(_, _)
findall_proofs(s, i) ==
  IF i > Len(s) THEN <<>>
  ELSE LET m == proofs_pattern(s, i)
       IN  IF m = NoMatch THEN findall_proofs(s, i + 1)
           ELSE <<m.groups>> \o findall_proofs(s, m.end + 1)

\* line 61: the dictionary built from the pairs, a later pair replacing an
\* earlier one with the same key
RECURSIVE proofs_dict(_, _, _)
proofs_dict(pairs, i, d) ==
  IF i > Len(pairs) THEN d
  ELSE proofs_dict(pairs, i + 1,
         [k \in DOMAIN d \cup {pairs[i][1]} |->
            IF k = pairs[i][1] THEN pairs[i][2] ELSE d[k]])

\* lines 66-69: the loop over lemmas_modules, from module i on
RECURSIVE pairing_loop(_, _, _, _, _)
pairing_loop(file_path, lemmas_modules, i, d, errs) ==
  IF i > Len(lemmas_modules) THEN errs
  ELSE LET lemmas == lemmas_modules[i]
           corresponding_proofs == replace(lemmas, s_Lemmas, s_Proofs)
       IN  IF corresponding_proofs \notin DOMAIN d
                \/ d[corresponding_proofs] # lemmas
           THEN pairing_loop(file_path, lemmas_modules, i + 1, d,
                             Append(errs, ErrorB(file_path, lemmas)))
           ELSE pairing_loop(file_path, lemmas_modules, i + 1, d, errs)

\* lines 45-71, text being what open(file_path).read() returns
check_proofs_for_lemmas(file_path, text) ==
  pairing_loop(file_path, findall_lemmas(text, 1), 1,
               proofs_dict(findall_proofs(text, 1), 1, <<>>), <<>>)

(***************************************************************************)
(* The two checks applied to one file                                      *)
(***************************************************************************)
line_module_A == <<"m", "o", "d", "u", "l", "e", " ", "A", "\n">>
line_module_ALemmas == <<"m", "o", "d", "u", "l", "e", " ", "A", "L", "e", "m", "m", "a", "s", "\n">>
line_module_AProofs == <<"m", "o", "d", "u", "l", "e", " ", "A", "P", "r", "o", "o", "f", "s", " ", ":", " ", "A", "L", "e", "m", "m", "a", "s", "\n">>
line_module_ASpec == <<"m", "o", "d", "u", "l", "e", " ", "A", "S", "p", "e", "c", "\n">>
line_axiom == <<"a", "x", "i", "o", "m", " ", "x", "\n">>
line_val_lemma == <<"v", "a", "l", " ", "l", "e", "m", "m", "a", " ", "f", "\n">>
line_module_LemmasALemmas == <<"m", "o", "d", "u", "l", "e", " ", "L", "e", "m", "m", "a", "s", "A", "L", "e", "m", "m", "a", "s", "\n">>
line_module_LemmasAProofs == <<"m", "o", "d", "u", "l", "e", " ", "L", "e", "m", "m", "a", "s", "A", "P", "r", "o", "o", "f", "s", " ", ":", " ", "L", "e", "m", "m", "a", "s", "A", "L", "e", "m", "m", "a", "s", "\n">>
\* "module", a form feed, the module name U+00C9, the line end U+000B, and
\* an axiom on the line after it
line_module_latin1 == <<"m", "o", "d", "u", "l", "e", "\f", "É", "", "a", "x", "i", "o", "m", " ", "x", "\n">>
line_indented_module == <<" ", "m", "o", "d", "u", "l", "e", " ", "B", "\n">>

\* the pieces the texts of the files are put together from
Pieces ==
  {line_module_A, line_module_ALemmas, line_module_AProofs, line_module_ASpec,
   line_axiom, line_val_lemma, s_open, s_close,
   line_module_LemmasALemmas, line_module_LemmasAProofs, line_indented_module,
   line_module_latin1}

Texts(n) == {Concat(ps) : ps \in SeqsUpTo(Pieces, n)}

file_mlw == <<"a", ".", "m", "l", "w">>

InitFile ==
  /\ IdleTree
  /\ IdleCov
  /\ IdleDir
  /\ content \in Texts(MaxPieces)
  /\ errsA = <<>>
  /\ errsB = <<>>
  /\ ran = {}

CheckA ==
  /\ "A" \notin ran
  /\ errsA' = check_lemma_axiom_in_lemmas(file_mlw, content)
  /\ ran' = ran \cup {"A"}
  /\ UNCHANGED <<content, errsB, treeVars, covVars, dirVars>>

CheckB ==
  /\ "B" \notin ran
  /\ errsB' = check_proofs_for_lemmas(file_mlw, content)
  /\ ran' = ran \cup {"B"}
  /\ UNCHANGED <<content, errsA, treeVars, covVars, dirVars>>

NextFile == CheckA \/ CheckB

SpecFile == InitFile /\ [][NextFile]_vars

(***************************************************************************)
(* Claims about the two checks on one file (specification SpecFile)        *)
(***************************************************************************)
Max(S) == CHOOSE x \in S : \A y \in S : y <= x

\* the module names of a list of errors, in order
Modules(es) == [i \in 1..Len(es) |-> es[i].module]

\* the lines Check A scans
Lines == splitlines(remove_comments(content))

IsDeclarationLine(L, i) ==
  Contains(L[i], s_val_lemma) \/ Contains(L[i], s_axiom)

\* the lines up to line i that declare a module at their start
ModuleLinesUpTo(L, i) == {j \in 1..i : module_pattern(L[j], 1) # NoModule}

\* the name the most recent module declaration gives, NoModule before the
\* first one
CurrentModule(L, i) ==
  IF ModuleLinesUpTo(L, i) = {} THEN NoModule
  ELSE module_pattern(L[Max(ModuleLinesUpTo(L, i))], 1)

Permitted(name) == endswith(name, s_Lemmas) \/ endswith(name, s_Spec)

\* the current modules of the lines in the set I, in the order of the lines
RECURSIVE ModulesOfLines(_, _)
ModulesOfLines(L, I) ==
  IF I = {} THEN <<>>
  ELSE <<CurrentModule(L, Min(I))>> \o ModulesOfLines(L, I \ {Min(I)})

\* C6 (as stated): every declaration line gives an error unless the name of
\* its current module ends in Lemmas or Spec, and only those lines do
C6_EveryDeclarationLine ==
  "A" \in ran =>
    LET L == Lines
    IN  Modules(errsA) =
          ModulesOfLines(L, {i \in 1..Len(L) :
            IsDeclarationLine(L, i) /\ ~Permitted(CurrentModule(L, i))})

\* C6 (amended): every declaration line that has a current module gives an
\* error unless that module's name ends in Lemmas or Spec; a declaration
\* line before the first module declaration gives none
C6_DeclarationLineInModule ==
  "A" \in ran =>
    LET L == Lines
    IN  Modules(errsA) =
          ModulesOfLines(L, {i \in 1..Len(L) :
            /\ IsDeclarationLine(L, i)
            /\ CurrentModule(L, i) # NoModule
            /\ ~Permitted(CurrentModule(L, i))})

\* Check A has scanned a file with a declaration line before the first
\* module and a declaration line in a module that is not permitted
C6_Witness ==
  /\ "A" \in ran
  /\ errsA # <<>>
  /\ LET L == Lines
     IN  \E i, j \in 1..Len(L) :
           /\ IsDeclarationLine(L, i) /\ CurrentModule(L, i) = NoModule
           /\ IsDeclarationLine(L, j) /\ CurrentModule(L, j) # NoModule
           /\ ~Permitted(CurrentModule(L, j))

\* the modules the file declares whose name ends in Lemmas
DeclaredLemmas ==
  {lemmas_pattern(content, i).groups[1] :
     i \in {j \in 1..Len(content) : lemmas_pattern(content, j) # NoMatch}}

\* M with its trailing Lemmas, and only that, replaced by Proofs
ProofsNameOf(M) == SubSeq(M, 1, Len(M) - Len(s_Lemmas)) \o s_Proofs

\* the file contains the ascription "module P : M"
HasAscription(P, M) ==
  \E i \in 1..Len(content) :
    /\ proofs_pattern(content, i) # NoMatch
    /\ proofs_pattern(content, i).groups = <<P, M>>

\* C7: a declared Lemmas module M gets no error exactly when the file
\* ascribes the module named M with Lemmas replaced by Proofs to M
C7_ErrorIffNoAscription ==
  "B" \in ran =>
    \A M \in DeclaredLemmas :
      (\A i \in 1..Len(errsB) : errsB[i].module # M)
        <=> HasAscription(ProofsNameOf(M), M)

\* C10: both checks report for a file what they report for the file with
\* its block comments removed
C10_CommentsIgnored ==
  ran = {"A", "B"} =>
    /\ errsA = check_lemma_axiom_in_lemmas(file_mlw, remove_comments(content))
    /\ errsB = check_proofs_for_lemmas(file_mlw, remove_comments(content))

(***************************************************************************)
(* The run of check_whyml_files over a directory                           *)
(***************************************************************************)
file_a == <<"a", ".", "m", "l", "w">>
file_b == <<"b", ".", "m", "l", "w">>
file_c == <<"c", ".", "t", "x", "t">>

DirNames == {file_a, file_b, file_c}

\* the texts of the files of the directory: no error, an error of Check A,
\* an error of Check B, errors of both
DirTexts ==
  {Concat(<<line_module_ALemmas, line_module_AProofs>>),
   Concat(<<line_module_A, line_axiom>>),
   Concat(<<line_module_ALemmas>>),
   Concat(<<line_module_A, line_val_lemma, line_axiom, line_module_ALemmas>>)}

NoError == [file |-> <<>>, text |-> "", module |-> <<>>]
Say(text) == [line |-> text, error |-> NoError]
SayError(e) == [line |-> "error", error |-> e]

InitDir ==
  /\ IdleTree
  /\ IdleCov
  /\ IdleFile
  /\ \E present \in SUBSET DirNames :
       /\ dir \in [present -> DirTexts]
       /\ order \in Orders(present)
  /\ idx = 1
  /\ errors = <<>>
  /\ sepOut = <<>>
  /\ sepPc = "loop"
  /\ sepExit = 0

\* lines 80-81 with the errors of the second check alone
file_errors_second_check_only(file_name, text) ==
  check_proofs_for_lemmas(file_name, text)

\* lines 80-81: what one file adds to errors
file_errors(file_name, text) ==
  check_lemma_axiom_in_lemmas(file_name, text)
    \o check_proofs_for_lemmas(file_name, text)

\* lines 78-81: one turn of the loop over os.listdir('.')
check_next_file ==
  /\ sepPc = "loop"
  /\ idx <= Len(order)
  /\ errors' = IF endswith(order[idx], s_mlw)
               THEN errors \o file_errors(order[idx], dir[order[idx]])
               ELSE errors
  /\ idx' = idx + 1
  /\ UNCHANGED <<dir, order, sepOut, sepPc, sepExit, treeVars, covVars, fileVars>>

\* lines 83-91: after the loop
report ==
  /\ sepPc = "loop"
  /\ idx > Len(order)
  /\ IF errors # <<>>
     THEN /\ sepOut' = <<Say("Statement-proof-separation check FAILED:"),
                         Say("Errors found:")>>
                         \o [i \in 1..Len(errors) |-> SayError(errors[i])]
          /\ sepPc' = "exited"
          /\ sepExit' = 1
     ELSE /\ sepOut' = <<Say("Statement-proof-separation check PASSED:"),
                         Say("All declared lemmas have proofs in their corresponding -Proof modules.")>>
          /\ sepPc' = "returned"
          /\ sepExit' = 0
  /\ UNCHANGED <<dir, order, idx, errors, treeVars, covVars, fileVars>>

NextDir == check_next_file \/ report

SpecDir == InitDir /\ [][NextDir]_vars

(***************************************************************************)
(* Claims about the run over a directory (specification SpecDir)           *)
(***************************************************************************)
MlwFiles == {f \in DOMAIN dir : endswith(f, s_mlw)}

\* every error either check produces on any .mlw file of the directory
AllErrors ==
  UNION {Range(check_lemma_axiom_in_lemmas(f, dir[f]))
           \cup Range(check_proofs_for_lemmas(f, dir[f])) : f \in MlwFiles}

\* the errors printed
Reported ==
  {sepOut[i].error : i \in {j \in 1..Len(sepOut) : sepOut[j].line = "error"}}

\* C8: the process ends only after the last file of the listing, the report
\* holds every error of both checks on every .mlw file, and the exit status
\* is 1 exactly when there are errors; without errors the PASSED message is
\* printed and the function returns
C8_ReportAfterAllFiles ==
  sepPc \in {"returned", "exited"} =>
    /\ idx = Len(order) + 1
    /\ AllErrors \subseteq Reported
    /\ Reported = Range(errors)
    /\ (sepPc = "exited" /\ sepExit = 1) <=> (errors # <<>>)
    /\ (errors # <<>>) <=> (AllErrors # {})
    /\ errors = <<>> =>
         /\ sepPc = "returned"
         /\ sepExit = 0
         /\ sepOut[1] = Say("Statement-proof-separation check PASSED:")

\* the run has failed on a directory whose first listed file has an error
\* of Check A only and whose last listed file has an error of Check B only
C8_Witness ==
  /\ sepPc = "exited"
  /\ Len(order) = 3
  /\ endswith(order[1], s_mlw)
  /\ endswith(order[3], s_mlw)
  /\ check_lemma_axiom_in_lemmas(order[1], dir[order[1]]) # <<>>
  /\ check_proofs_for_lemmas(order[1], dir[order[1]]) = <<>>
  /\ check_lemma_axiom_in_lemmas(order[3], dir[order[3]]) = <<>>
  /\ check_proofs_for_lemmas(order[3], dir[order[3]]) # <<>>
  /\ AllErrors \subseteq Reported

====
